---- MODULE Spec2Model ----
(***************************************************************************)
(* cryptik: OTP service (package gootp) over the expiring in-memory cache  *)
(* (package cache).  Source: src/cryptik.go.                               *)
(***************************************************************************)
EXTENDS Integers, Sequences, FiniteSets, TLC

(***************************************************************************)
(* Go's int64, kept at its width.  A value is its two's-complement bit     *)
(* pattern as four 16-bit limbs, least significant first, so that every    *)
(* intermediate product stays far below the checker's own integer range.   *)
(* +, - and * wrap modulo 2^64 exactly as Go's signed arithmetic does.     *)
(***************************************************************************)
LimbBase == 65536

LimbCount == 4

RECURSIVE AddLimbs(_, _, _, _)
AddLimbs(a, b, i, carry) ==
    IF i > LimbCount THEN <<>>
    ELSE LET s == a[i] + b[i] + carry
         IN  <<s % LimbBase>> \o AddLimbs(a, b, i + 1, s \div LimbBase)

RECURSIVE MulLimbs(_, _, _, _)
MulLimbs(a, k, i, carry) ==
    IF i > LimbCount THEN <<>>
    ELSE LET p == a[i] * k + carry
         IN  <<p % LimbBase>> \o MulLimbs(a, k, i + 1, p \div LimbBase)

\* int64(n) for a small non-negative literal n
I64(n) == <<n % LimbBase, (n \div LimbBase) % LimbBase, 0, 0>>

I64Add(a, b) == AddLimbs(a, b, 1, 0)

I64MulSmall(a, k) == MulLimbs(a, k, 1, 0)

I64Not(a) == [i \in 1..LimbCount |-> (LimbBase - 1) - a[i]]

I64Neg(a) == I64Add(I64Not(a), I64(1))

I64Sub(a, b) == I64Add(a, I64Neg(b))

I64IsNeg(a) == a[LimbCount] >= LimbBase \div 2

I64IsZero(a) == \A i \in 1..LimbCount : a[i] = 0

\* quotient and remainder of the unsigned 64-bit value a by 10
RECURSIVE DivLimbs(_, _, _)
DivLimbs(a, i, rem) ==
    IF i < 1 THEN [q |-> <<>>, r |-> rem]
    ELSE LET cur  == rem * LimbBase + a[i]
             rest == DivLimbs(a, i - 1, cur % 10)
         IN  [q |-> rest.q \o <<cur \div 10>>, r |-> rest.r]

DigitChar == <<"0", "1", "2", "3", "4", "5", "6", "7", "8", "9">>

\* decimal digits of the unsigned 64-bit value a, most significant first
RECURSIVE UDigits(_)
UDigits(a) ==
    IF I64IsZero(a) THEN <<>>
    ELSE LET d == DivLimbs(a, LimbCount, 0)
         IN  UDigits(d.q) \o <<DigitChar[d.r + 1]>>

Zeros(n) == [i \in 1..(IF n > 0 THEN n ELSE 0) |-> "0"]

\* fmt.Sprintf("%0*d", width, v): the sign first, then zeros up to width
Sprintf0d(width, v) ==
    LET neg  == I64IsNeg(v)
        mag  == IF neg THEN I64Neg(v) ELSE v
        digs == IF I64IsZero(mag) THEN <<"0">> ELSE UDigits(mag)
    IN  IF neg
        THEN <<"-">> \o Zeros(width - 1 - Len(digs)) \o digs
        ELSE Zeros(width - Len(digs)) \o digs

(***************************************************************************)
(* Bounds of the model and the program's constants.                        *)
(***************************************************************************)
\* how many times the clock advances in one run
MaxTicks == 2

\* GenerateOTP: time.Now().Add(10*time.Minute).Unix()
OTPTTLSeconds == 600

\* GetCache: time.Sleep(1 * time.Minute) between two sweeps
SweepPeriodSeconds == 60

\* NewService: conf.Length = 6 when conf.Length < 1
DefaultLength == 6

\* the clock advances by one second or by a whole OTP lifetime
ClockSteps == {1, OTPTTLSeconds}

\* conf.Length as handed to NewService (0: not specified)
ConfLengths == {0, 19}

\* keys handed to the service and the cache: empty, blank, ordinary
Keys == {"", " ", "u1"}

\* keys handed to the OTP service
ServiceKeys == {"", "u1"}

Clients == {"g1", "g2"}

\* the key each goroutine works on when the goroutines keep to disjoint keys
KeyOf == [t \in Clients |-> IF t = "g1" THEN "u1" ELSE " "]

Sweeper == "sweeper"

NoOwner == "nobody"

(***************************************************************************)
(* Values of Go's `any` as stored in CacheEntry.Data: a string (its        *)
(* characters), nil, or something that is not a string.                    *)
(***************************************************************************)
StrVal(s) == [t |-> "string", s |-> s]

NilVal == [t |-> "nil", s |-> <<>>]

IntVal == [t |-> "int", s |-> <<>>]

\* values a caller stores through the cache's own Set
SetValues == {NilVal, IntVal}

(***************************************************************************)
(* package gootp: the arithmetic of GenerateOTP                            *)
(***************************************************************************)
\* min := int64(1); for i := 1; i < o.Length; i++ { min *= 10 }
RECURSIVE OtpMinLoop(_, _, _)
OtpMinLoop(min, i, length) ==
    IF i < length THEN OtpMinLoop(I64MulSmall(min, 10), i + 1, length) ELSE min

OtpMin(length) == OtpMinLoop(I64(1), 1, length)

\* max := min*10 - 1
OtpMax(length) == I64Sub(I64MulSmall(OtpMin(length), 10), I64(1))

\* diff := big.NewInt(max - min + 1)
OtpDiff(length) == I64Add(I64Sub(OtpMax(length), OtpMin(length)), I64(1))

\* rand.Int panics when its bound is <= 0
RandPanics(diff) == I64IsNeg(diff) \/ I64IsZero(diff)

\* rand.Int returns n with 0 <= n < diff: the smallest and the largest draw
RandDraws(diff) == {I64(0), I64Sub(diff, I64(1))}

\* result := n.Int64() + min
OtpResult(length, n) == I64Add(n, OtpMin(length))

\* otp := fmt.Sprintf("%0*d", o.Length, result)
FormatOTP(length, n) == Sprintf0d(length, OtpResult(length, n))

\* NewService: the length the service works with
ServiceLength(confLength) == IF confLength < 1 THEN DefaultLength ELSE confLength

\* a format check that looks only for the empty string
InvalidFormatEmptyOnly(otp, length) == otp = <<>>

\* ValidateOTP: otp == "" || len(otp) != o.Length
InvalidFormat(otp, length) == otp = <<>> \/ Len(otp) # length

(***************************************************************************)
(* package cache: CacheEntry and the reads and writes of CacheInstance     *)
(***************************************************************************)
\* an expiry test with the comparison turned round
IsExpiredInverted(entry, clock) == entry.Expiry > clock

\* CacheEntry.IsExpired: c.Expiry < time.Now().Unix()
IsExpired(entry, clock) == entry.Expiry < clock

\* a key test that also turns away a key of white space
SetRejectsBlank(key) == key \in {"", " "}

\* Set: if key == "" { return errors.New("key cannot be empty") }
SetRejects(key) == key = ""

\* an assignment that keeps no entry but the one it writes
StoreAlone(d, key, value, expiration) ==
    [k \in {key} |-> [Data |-> value, Expiry |-> expiration]]

\* c.data[key] = CacheEntry{Data: value, Expiry: expiration}
Store(d, key, value, expiration) ==
    [k \in DOMAIN d \cup {key} |->
        IF k = key THEN [Data |-> value, Expiry |-> expiration] ELSE d[k]]

\* a delete that empties the map
RemoveAll(d, key) == [k \in {} |-> d[k]]

\* delete(c.data, key)
Remove(d, key) == [k \in DOMAIN d \ {key} |-> d[k]]

\* Get: (entry.Data, true) unless the key is absent or the entry expired
CacheGet(d, key, clock) ==
    IF key \notin DOMAIN d \/ IsExpired(d[key], clock)
    THEN [val |-> NilVal, ok |-> FALSE]
    ELSE [val |-> d[key].Data, ok |-> TRUE]

\* an Exists that looks only for the key
CacheExistsPresent(d, key, clock) == key \in DOMAIN d

\* Exists: false when absent, else !entry.IsExpired()
CacheExists(d, key, clock) ==
    IF key \notin DOMAIN d THEN FALSE ELSE ~IsExpired(d[key], clock)

\* the data field of a CacheInstance whose map was never made (a nil map): it
\* holds no key a caller can name, reads find nothing in it, delete and range
\* leave it as it is, and an assignment to one of its entries panics
NilMap == [k \in {"<nil map>"} |-> [Data |-> NilVal, Expiry |-> 0]]

\* a scan that deletes nothing
SweptNothing(d, clock) == d

\* RemoveExpiredEntries: for key, entry := range c.data { if entry.IsExpired() { delete } }
Swept(d, clock) ==
    IF d = NilMap THEN d
    ELSE [k \in {j \in DOMAIN d : ~IsExpired(d[j], clock)} |-> d[k]]

\* Clear: c.data = make(map[string]CacheEntry)
EmptyMap == [k \in {} |-> NilVal]

(***************************************************************************)
(* State.                                                                  *)
(***************************************************************************)
VARIABLES
    Length,   \* otpServiceInstance.Length, fixed by NewService
    data,     \* CacheInstance.data: key -> CacheEntry
    mu,       \* CacheInstance.mu: the writer holding it, the readers holding it
    now,      \* time.Now().Unix()
    ticks,    \* clock advances so far
    wake,     \* the instant the cleanup goroutine's time.Sleep returns
    th,       \* each goroutine: the call it is in and where it stands in it
    prev,     \* history: each recorded goroutine's previous completed call
    snap,     \* history: the cache's entry for the call's key when the call began
    reads,    \* history: the goroutine's reads since the map was last written (0, 1, more)
    stored,   \* history: per counted key, the OTPs GenerateOTP stored (0, 1, more)
    once,     \* package cache: var once sync.Once
    instance, \* package cache: var instance Cache (0: nil, else the instance built)
    started,  \* history: cleanup goroutines GetCache has started
    replay    \* history: per replayed key, what its caller's calls leave, in program order

vars == <<Length, data, mu, now, ticks, wake, th, prev, snap, reads, stored,
          once, instance, started, replay>>

\* the singleton's package-level state
singleton == <<once, instance, started>>

Goroutines == DOMAIN th

Absent == [Data |-> NilVal, Expiry |-> -1, present |-> FALSE]

Lookup(d, key) ==
    IF key \in DOMAIN d
    THEN [Data |-> d[key].Data, Expiry |-> d[key].Expiry, present |-> TRUE]
    ELSE Absent

NoRes == [val |-> NilVal, ok |-> FALSE, err |-> "pending"]

Res(val, ok, err) == [val |-> val, ok |-> ok, err |-> err]

NoCall == [op |-> "none", key |-> "", arg |-> NilVal, res |-> NoRes, old |-> Absent]

Fresh == [op |-> "none", pc |-> "idle", key |-> "", arg |-> NilVal, exp |-> 0,
          res |-> NoRes]

\* what the history keeps of a completed call: the call, its arguments, its
\* result, and the entry its key held when it began
Summary(r, before) ==
    [op |-> r.op, key |-> r.key, arg |-> r.arg, res |-> r.res, old |-> before]

\* sync.RWMutex: Lock waits for no writer and no reader, RLock for no writer
CanLock == mu.w = NoOwner /\ mu.r = {}

\* an RLock that waits for nobody
CanRLockAnyway == TRUE

CanRLock == mu.w = NoOwner

Locked(t) == [mu EXCEPT !.w = t]

RLocked(t) == [mu EXCEPT !.r = @ \cup {t}]

Unlocked == [mu EXCEPT !.w = NoOwner]

RUnlocked(t) == [mu EXCEPT !.r = @ \ {t}]

\* goroutine t enters a call: its record, and the history kept of it
Enter(t, op, key, arg, exp, pc, res) ==
    /\ th' = [th EXCEPT ![t] = [op |-> op, pc |-> pc, key |-> key, arg |-> arg,
                                exp |-> exp, res |-> res]]
    /\ prev' = [g \in DOMAIN prev |->
                   IF g # t THEN prev[g]
                   ELSE Summary(th[t], IF t \in DOMAIN snap THEN snap[t] ELSE Absent)]
    /\ snap' = [g \in DOMAIN snap |-> IF g = t THEN Lookup(data, key) ELSE snap[g]]

\* goroutine t moves on inside its call
Goto(t, pc) ==
    /\ th' = [th EXCEPT ![t].pc = pc]
    /\ UNCHANGED <<prev, snap>>

\* goroutine t's call returns res
Return(t, res) ==
    /\ th' = [th EXCEPT ![t].pc = "idle", ![t].res = res]
    /\ UNCHANGED <<prev, snap>>

\* goroutine t's call panics: it returns nothing
Panic(t) ==
    /\ th' = [th EXCEPT ![t].pc = "panicked", ![t].res = Res(NilVal, FALSE, "panic")]
    /\ UNCHANGED <<prev, snap>>

\* a write to the map ends every goroutine's run of undisturbed reads
Disturbed == [g \in DOMAIN reads |-> 0]

\* goroutine t has read the map once more
Settled(t) == [g \in DOMAIN reads |-> IF g = t /\ reads[g] < 2 THEN reads[g] + 1 ELSE reads[g]]

\* one more OTP stored under key
CountStore(key) ==
    [k \in DOMAIN stored |-> IF k = key /\ stored[k] < 2 THEN stored[k] + 1 ELSE stored[k]]

\* the call just begun on key leaves entry there, whatever came before it
Replayed(key, entry) ==
    [k \in DOMAIN replay |-> IF k = key THEN entry ELSE replay[k]]

Idle(t) == t \in Clients /\ t \in Goroutines /\ th[t].pc = "idle"

(***************************************************************************)
(* Init.  The goroutines in clients are about to call.  With built, the    *)
(* singleton exists: GetCache has made its map and started its cleanup     *)
(* goroutine, which is asleep.  Without, no GetCache call has begun (once  *)
(* is unused, instance is nil) and data is the map of a CacheInstance that *)
(* nothing has made.                                                       *)
(***************************************************************************)
SleepingSweeper == [Fresh EXCEPT !.op = "RemoveExpiredEntries", !.pc = "sleep"]

InitFrom(clients, recorded, snapped, counted, replayed, confLengths, built) ==
    /\ Length \in {ServiceLength(c) : c \in confLengths}
    /\ data = IF built THEN EmptyMap ELSE NilMap
    /\ mu = [w |-> NoOwner, r |-> {}]
    /\ now = 0
    /\ ticks = 0
    /\ wake = SweepPeriodSeconds
    /\ th = [g \in clients \cup (IF built THEN {Sweeper} ELSE {}) |->
                IF g = Sweeper THEN SleepingSweeper ELSE Fresh]
    /\ prev = [g \in recorded |-> NoCall]
    /\ snap = [g \in snapped |-> Absent]
    /\ reads = [g \in recorded |-> 0]
    /\ stored = [k \in counted |-> 0]
    /\ once = IF built THEN "done" ELSE "fresh"
    /\ instance = IF built THEN 1 ELSE 0
    /\ started = IF built THEN 1 ELSE 0
    /\ replay = [k \in replayed |-> Absent]

\* NewService has built the service over the cache GetCache returned
InitWith(clients, recorded, snapped, counted, confLengths) ==
    InitFrom(clients, recorded, snapped, counted, {}, confLengths, TRUE)

(***************************************************************************)
(* Inputs: what a caller may hand to ValidateOTP.                          *)
(***************************************************************************)
\* what GenerateOTP computes for each configured length: whether rand.Int
\* panics, and the formatted OTP of each draw.  A table of the operators
\* above, so that the arithmetic is evaluated once per length.
OtpTable ==
    [c \in ConfLengths |->
        LET length == ServiceLength(c)
            diff   == OtpDiff(length)
        IN  [length |-> length,
             panics |-> RandPanics(diff),
             otps   |-> IF RandPanics(diff) THEN {}
                        ELSE {FormatOTP(length, n) : n \in RandDraws(diff)}]]

OtpRow(length) == CHOOSE row \in {OtpTable[c] : c \in ConfLengths} : row.length = length

\* empty, right length but never generated, too long, and what GenerateOTP returns
OtpInputs(length) ==
    {<<>>, Zeros(length), Zeros(length + 1)} \cup OtpRow(length).otps

\* expirations a caller hands to the cache's own Set: just past, just ahead
SetExpiries(clock) == {clock - 1, clock + 1}

(***************************************************************************)
(* package gootp: GenerateOTP and ValidateOTP                              *)
(***************************************************************************)
\* GenerateOTP up to its call of CacheService.Set: the draw, the formatting, the
\* expiry (time.Now() is read before Set takes the lock) and Set's key check
GenerateOTP(t, key) ==
    /\ Idle(t)
    /\ LET row == OtpRow(Length)
       IN  IF row.panics
           THEN Enter(t, "GenerateOTP", key, NilVal, 0, "panicked",
                      Res(NilVal, FALSE, "panic"))
           ELSE \E drawn \in row.otps, randOK \in BOOLEAN :
                  LET otp == StrVal(drawn)
                      exp == now + OTPTTLSeconds
                  IN  IF ~randOK
                      THEN Enter(t, "GenerateOTP", key, NilVal, 0, "idle",
                                 Res(StrVal(<<>>), FALSE, "random"))
                      ELSE IF SetRejects(key)
                      THEN Enter(t, "GenerateOTP", key, otp, exp, "idle",
                                 Res(StrVal(<<>>), FALSE, "store"))
                      ELSE Enter(t, "GenerateOTP", key, otp, exp, "set_lock", NoRes)
    /\ UNCHANGED <<Length, data, mu, now, ticks, wake>>
    /\ UNCHANGED <<reads, stored>>
    /\ UNCHANGED <<singleton, replay>>

\* ValidateOTP up to c.mu.RLock() in Get: the format check comes first
ValidateOTP(t, key, otp) ==
    /\ Idle(t)
    /\ IF InvalidFormat(otp, Length)
       THEN /\ Enter(t, "ValidateOTP", key, StrVal(otp), 0, "idle",
                     Res(NilVal, FALSE, "ErrInvalidOTP"))
            /\ UNCHANGED mu
       ELSE /\ CanRLock
            /\ mu' = RLocked(t)
            /\ Enter(t, "ValidateOTP", key, StrVal(otp), 0, "get_cs", NoRes)
    /\ UNCHANGED <<Length, data, now, ticks, wake>>
    /\ UNCHANGED <<reads, stored>>
    /\ UNCHANGED <<singleton, replay>>

\* ValidateOTP after Get returned (cached, exists): the comparison
AfterGet(t, got) ==
    IF ~got.ok THEN Return(t, Res(NilVal, FALSE, "not found"))
    ELSE IF got.val = NilVal THEN Return(t, Res(NilVal, FALSE, "mismatch"))
    ELSE IF got.val.t # "string" THEN Panic(t)
    ELSE IF got.val # th[t].arg THEN Return(t, Res(NilVal, FALSE, "mismatch"))
    ELSE Goto(t, "del_lock")

(***************************************************************************)
(* package cache: the operations of CacheInstance                          *)
(***************************************************************************)
\* Set, called on the cache itself: the key check, then c.mu.Lock()
Set(t, key, value, expiration) ==
    /\ Idle(t)
    /\ IF SetRejects(key)
       THEN /\ Enter(t, "Set", key, value, expiration, "idle",
                     Res(NilVal, FALSE, "empty key"))
            /\ UNCHANGED mu
       ELSE /\ CanLock
            /\ mu' = Locked(t)
            /\ Enter(t, "Set", key, value, expiration, "set_cs", NoRes)
    /\ UNCHANGED <<Length, data, now, ticks, wake>>
    /\ UNCHANGED <<reads, stored>>
    /\ UNCHANGED singleton
    /\ replay' = IF SetRejects(key) THEN replay
                 ELSE Replayed(key, [Data |-> value, Expiry |-> expiration,
                                     present |-> TRUE])

\* c.mu.Lock() of the Set that GenerateOTP called
SetLock(t) ==
    /\ t \in Goroutines
    /\ th[t].pc = "set_lock"
    /\ CanLock
    /\ mu' = Locked(t)
    /\ Goto(t, "set_cs")
    /\ UNCHANGED <<Length, data, now, ticks, wake>>
    /\ UNCHANGED <<reads, stored>>
    /\ UNCHANGED <<singleton, replay>>

\* Set's critical section, its deferred Unlock, and the caller's return
SetBody(t) ==
    /\ t \in Goroutines
    /\ th[t].pc = "set_cs"
    /\ mu' = Unlocked
    /\ IF data = NilMap
       THEN \* assignment to entry in nil map
            /\ Panic(t)
            /\ UNCHANGED <<data, reads, stored>>
       ELSE /\ data' = Store(data, th[t].key, th[t].arg, th[t].exp)
            /\ IF th[t].op = "GenerateOTP"
               THEN Return(t, Res(th[t].arg, TRUE, "nil"))
               ELSE Return(t, Res(NilVal, TRUE, "nil"))
            /\ reads' = Disturbed
            /\ stored' = IF th[t].op = "GenerateOTP" THEN CountStore(th[t].key)
                         ELSE stored
    /\ UNCHANGED <<Length, now, ticks, wake>>
    /\ UNCHANGED <<singleton, replay>>

\* Get, called on the cache itself: c.mu.RLock()
Get(t, key) ==
    /\ Idle(t)
    /\ CanRLock
    /\ mu' = RLocked(t)
    /\ Enter(t, "Get", key, NilVal, 0, "get_cs", NoRes)
    /\ UNCHANGED <<Length, data, now, ticks, wake>>
    /\ UNCHANGED <<reads, stored>>
    /\ UNCHANGED <<singleton, replay>>

\* Get's critical section and deferred RUnlock; ValidateOTP goes on to compare
GetBody(t) ==
    /\ t \in Goroutines
    /\ th[t].pc = "get_cs"
    /\ mu' = RUnlocked(t)
    /\ LET got == CacheGet(data, th[t].key, now)
       IN  IF th[t].op = "ValidateOTP"
           THEN AfterGet(t, got)
           ELSE Return(t, Res(got.val, got.ok, "nil"))
    /\ UNCHANGED <<Length, data, now, ticks, wake>>
    /\ reads' = Settled(t)
    /\ UNCHANGED stored
    /\ UNCHANGED <<singleton, replay>>

\* Delete, called on the cache itself: c.mu.Lock()
Delete(t, key) ==
    /\ Idle(t)
    /\ CanLock
    /\ mu' = Locked(t)
    /\ Enter(t, "Delete", key, NilVal, 0, "del_cs", NoRes)
    /\ UNCHANGED <<Length, data, now, ticks, wake>>
    /\ UNCHANGED <<reads, stored>>
    /\ UNCHANGED singleton
    /\ replay' = Replayed(key, Absent)

\* c.mu.Lock() of the Delete that ValidateOTP calls after a match
DeleteLock(t) ==
    /\ t \in Goroutines
    /\ th[t].pc = "del_lock"
    /\ CanLock
    /\ mu' = Locked(t)
    /\ Goto(t, "del_cs")
    /\ UNCHANGED <<Length, data, now, ticks, wake>>
    /\ UNCHANGED <<reads, stored>>
    /\ UNCHANGED <<singleton, replay>>

\* Delete's critical section and deferred Unlock; ValidateOTP returns (true, nil)
DeleteBody(t) ==
    /\ t \in Goroutines
    /\ th[t].pc = "del_cs"
    /\ data' = Remove(data, th[t].key)
    /\ mu' = Unlocked
    /\ Return(t, Res(NilVal, TRUE, "nil"))
    /\ UNCHANGED <<Length, now, ticks, wake>>
    /\ reads' = Disturbed
    /\ UNCHANGED stored
    /\ UNCHANGED <<singleton, replay>>

\* Exists: c.mu.RLock()
Exists(t, key) ==
    /\ Idle(t)
    /\ CanRLock
    /\ mu' = RLocked(t)
    /\ Enter(t, "Exists", key, NilVal, 0, "exists_cs", NoRes)
    /\ UNCHANGED <<Length, data, now, ticks, wake>>
    /\ UNCHANGED <<reads, stored>>
    /\ UNCHANGED <<singleton, replay>>

ExistsBody(t) ==
    /\ t \in Goroutines
    /\ th[t].pc = "exists_cs"
    /\ mu' = RUnlocked(t)
    /\ Return(t, Res(NilVal, CacheExists(data, th[t].key, now), "nil"))
    /\ UNCHANGED <<Length, data, now, ticks, wake>>
    /\ reads' = Settled(t)
    /\ UNCHANGED stored
    /\ UNCHANGED <<singleton, replay>>

\* Clear: c.mu.Lock()
Clear(t) ==
    /\ Idle(t)
    /\ CanLock
    /\ mu' = Locked(t)
    /\ Enter(t, "Clear", "", NilVal, 0, "clear_cs", NoRes)
    /\ UNCHANGED <<Length, data, now, ticks, wake>>
    /\ UNCHANGED <<reads, stored>>
    /\ UNCHANGED <<singleton, replay>>

ClearBody(t) ==
    /\ t \in Goroutines
    /\ th[t].pc = "clear_cs"
    /\ data' = EmptyMap
    /\ mu' = Unlocked
    /\ Return(t, Res(NilVal, TRUE, "nil"))
    /\ UNCHANGED <<Length, now, ticks, wake>>
    /\ reads' = Disturbed
    /\ UNCHANGED stored
    /\ UNCHANGED <<singleton, replay>>

\* RemoveExpiredEntries called by a client: c.mu.Lock()
RemoveExpiredEntries(t) ==
    /\ Idle(t)
    /\ CanLock
    /\ mu' = Locked(t)
    /\ Enter(t, "RemoveExpiredEntries", "", NilVal, 0, "sweep_cs", NoRes)
    /\ UNCHANGED <<Length, data, now, ticks, wake>>
    /\ UNCHANGED <<reads, stored>>
    /\ UNCHANGED <<singleton, replay>>

\* GetCache's cleanup goroutine: time.Sleep returned, RemoveExpiredEntries locks
SweeperWake ==
    /\ Sweeper \in Goroutines
    /\ th[Sweeper].pc = "sleep"
    /\ now >= wake
    /\ CanLock
    /\ mu' = Locked(Sweeper)
    /\ Goto(Sweeper, "sweep_cs")
    /\ UNCHANGED <<Length, data, now, ticks, wake>>
    /\ UNCHANGED <<reads, stored>>
    /\ UNCHANGED <<singleton, replay>>

\* the scan, the deferred Unlock; the cleanup goroutine goes back to sleep
SweepBody(t) ==
    /\ t \in Goroutines
    /\ th[t].pc = "sweep_cs"
    /\ data' = Swept(data, now)
    /\ mu' = Unlocked
    /\ IF t = Sweeper
       THEN /\ Goto(t, "sleep")
            /\ wake' = now + SweepPeriodSeconds
       ELSE /\ Return(t, Res(NilVal, TRUE, "nil"))
            /\ UNCHANGED wake
    /\ UNCHANGED <<Length, now, ticks>>
    /\ reads' = Disturbed
    /\ UNCHANGED stored
    /\ UNCHANGED <<singleton, replay>>

(***************************************************************************)
(* package cache: GetCache and its sync.Once                               *)
(***************************************************************************)
\* the Cache a GetCache call returns: the i-th CacheInstance built
InstVal(i) == [t |-> "cache", s |-> <<DigitChar[i + 1]>>]

\* a Once that runs f whenever no f is running, done before or not
DoRunsAgain(o) == o # "running"

\* once.Do(f) runs f only in the first call of Do for this Once
DoRuns(o) == o = "fresh"

\* once.Do(f) does not return, in any caller, while the one call of f runs
DoWaits(o) == o = "running"

\* a caller that has the singleton: no GetCache returns before once is done
HasInstance == once = "done"

\* GetCache is called
GetCache(t) ==
    /\ Idle(t)
    /\ Enter(t, "GetCache", "", NilVal, 0, "once_do", NoRes)
    /\ UNCHANGED <<Length, data, mu, now, ticks, wake>>
    /\ UNCHANGED <<reads, stored>>
    /\ UNCHANGED <<singleton, replay>>

\* once.Do(...): the first caller goes on to run f, a caller that finds f
\* running waits, a caller that finds it done returns instance
OnceDo(t) ==
    /\ t \in Goroutines
    /\ th[t].pc = "once_do"
    /\ ~DoWaits(once)
    /\ IF DoRuns(once)
       THEN /\ once' = "running"
            /\ Goto(t, "once_f")
       ELSE /\ Return(t, Res(InstVal(instance), TRUE, "nil"))
            /\ UNCHANGED once
    /\ UNCHANGED <<Length, data, mu, now, ticks, wake>>
    /\ UNCHANGED <<reads, stored>>
    /\ UNCHANGED <<instance, started, replay>>

\* f: instance = &CacheInstance{data: make(...), mu: sync.RWMutex{}}, the
\* cleanup goroutine is started and goes to sleep; Do returns, GetCache
\* returns instance
OnceF(t) ==
    /\ t \in Goroutines
    /\ th[t].pc = "once_f"
    /\ instance' = started + 1
    /\ data' = EmptyMap
    /\ mu' = [w |-> NoOwner, r |-> {}]
    /\ started' = started + 1
    /\ wake' = now + SweepPeriodSeconds
    /\ once' = "done"
    /\ th' = [g \in DOMAIN th \cup {Sweeper} |->
                 IF g = t THEN [th[t] EXCEPT !.pc = "idle",
                                             !.res = Res(InstVal(started + 1), TRUE, "nil")]
                 ELSE IF g = Sweeper THEN SleepingSweeper
                 ELSE th[g]]
    /\ UNCHANGED <<prev, snap>>
    /\ UNCHANGED <<Length, now, ticks>>
    /\ UNCHANGED <<reads, stored, replay>>

\* the clock advances
Tick(d) ==
    /\ ticks < MaxTicks
    /\ now' = now + d
    /\ ticks' = ticks + 1
    /\ UNCHANGED <<Length, data, mu, wake, th, prev, snap, reads, stored>>
    /\ UNCHANGED <<singleton, replay>>

\* steps inside a call that both the service and the cache's own callers take
CallSteps ==
    \/ \E t \in Clients : SetBody(t)
    \/ \E t \in Clients : GetBody(t)
    \/ \E t \in Clients : DeleteBody(t)
    \/ \E t \in Clients \cup {Sweeper} : SweepBody(t)
    \/ SweeperWake
    \/ \E d \in ClockSteps : Tick(d)

\* callers of the OTP service
NextOTP ==
    \/ \E t \in Clients, k \in ServiceKeys : GenerateOTP(t, k)
    \/ \E t \in Clients, k \in ServiceKeys, o \in OtpInputs(Length) : ValidateOTP(t, k, o)
    \/ \E t \in Clients : SetLock(t)
    \/ \E t \in Clients : DeleteLock(t)
    \/ CallSteps

\* callers of the cache itself
NextCache ==
    \/ \E t \in Clients, k \in Keys, v \in SetValues, e \in SetExpiries(now) :
            Set(t, k, v, e)
    \/ \E t \in Clients, k \in Keys : Get(t, k)
    \/ \E t \in Clients, k \in Keys : Delete(t, k)
    \/ \E t \in Clients, k \in Keys : Exists(t, k)
    \/ \E t \in Clients : Clear(t)
    \/ \E t \in Clients : RemoveExpiredEntries(t)
    \/ \E t \in Clients : ExistsBody(t)
    \/ \E t \in Clients : ClearBody(t)
    \/ CallSteps

\* goroutines calling Set, Get and Delete on the cache, each on a key of its own
NextDisjoint ==
    \/ \E t \in Clients, v \in SetValues, e \in SetExpiries(now) : Set(t, KeyOf[t], v, e)
    \/ \E t \in Clients : Get(t, KeyOf[t])
    \/ \E t \in Clients : Delete(t, KeyOf[t])
    \/ \E t \in Clients : SetBody(t)
    \/ \E t \in Clients : GetBody(t)
    \/ \E t \in Clients : DeleteBody(t)

\* goroutines calling GetCache, and Set and Get on the instance it returned
NextSingleton ==
    \/ \E t \in Clients : GetCache(t)
    \/ \E t \in Clients : OnceDo(t)
    \/ \E t \in Clients : OnceF(t)
    \/ \E t \in Clients, e \in SetExpiries(now) : HasInstance /\ Set(t, "u1", NilVal, e)
    \/ \E t \in Clients : HasInstance /\ Get(t, "u1")
    \/ \E t \in Clients : SetBody(t)
    \/ \E t \in Clients : GetBody(t)
    \/ SweeperWake
    \/ SweepBody(Sweeper)
    \/ \E d \in ClockSteps : Tick(d)

\* one goroutine setting and deleting one key while the clock advances, an OTP
\* lifetime at a time, and the cleanup goroutine sweeps
NextLive ==
    \/ \E v \in SetValues, e \in SetExpiries(now) : Set("g1", "u1", v, e)
    \/ Delete("g1", "u1")
    \/ SetBody("g1")
    \/ DeleteBody("g1")
    \/ SweeperWake
    \/ SweepBody(Sweeper)
    \/ Tick(OTPTTLSeconds)

\* goroutines calling every operation of the cache on one key
NextShared ==
    \/ \E t \in Clients, e \in SetExpiries(now) : Set(t, "u1", NilVal, e)
    \/ \E t \in Clients : Get(t, "u1")
    \/ \E t \in Clients : Delete(t, "u1")
    \/ \E t \in Clients : Exists(t, "u1")
    \/ \E t \in Clients : Clear(t)
    \/ \E t \in Clients : RemoveExpiredEntries(t)
    \/ \E t \in Clients : ExistsBody(t)
    \/ \E t \in Clients : ClearBody(t)
    \/ CallSteps

\* one goroutine calling a CacheInstance it constructed itself
NextDirect ==
    \/ \E k \in ServiceKeys, v \in SetValues, e \in SetExpiries(now) : Set("g1", k, v, e)
    \/ \E k \in ServiceKeys : Get("g1", k)
    \/ \E k \in ServiceKeys : Delete("g1", k)
    \/ Clear("g1")
    \/ SetBody("g1")
    \/ GetBody("g1")
    \/ DeleteBody("g1")
    \/ ClearBody("g1")
    \/ \E d \in ClockSteps : Tick(d)

\* what a caller of the shared cache stores under a key the OTP service uses:
\* nil, a value that is not a string, or a string that looks like an OTP
SharedValues == SetValues \cup {StrVal(o) : o \in OtpRow(DefaultLength).otps}

\* one goroutine validating OTPs for a key that is also written through the
\* cache's own Set
NextMixed ==
    \/ \E v \in SharedValues, e \in SetExpiries(now) : Set("g1", "u1", v, e)
    \/ \E o \in OtpInputs(Length) : ValidateOTP("g1", "u1", o)
    \/ DeleteLock("g1")
    \/ CallSteps

\* several goroutines calling one OTP service over the shared cache
Init == InitWith(Clients, {}, {}, ServiceKeys, {0})

Spec == Init /\ [][NextOTP]_vars

\* one goroutine calling the OTP service, with the history of its calls
InitSeq == InitWith({"g1"}, {"g1"}, {"g1"}, {}, ConfLengths)

SpecSeq == InitSeq /\ [][NextOTP]_vars

\* several goroutines on the cache, each on its own key, with the replay of
\* their calls; all of it within the cleanup goroutine's first sleep
InitDisjoint ==
    InitFrom(Clients, {}, {}, {}, {KeyOf[t] : t \in Clients}, {0}, TRUE)

SpecDisjoint == InitDisjoint /\ [][NextDisjoint]_vars

\* several goroutines, before the first call of GetCache
InitSingleton == InitFrom(Clients, {}, {}, {}, {}, {0}, FALSE)

SpecSingleton == InitSingleton /\ [][NextSingleton]_vars

\* the singleton cache under fair scheduling.  The clock advances while it
\* can; a goroutine inside Set or Delete goes on to its deferred Unlock; the
\* cleanup goroutine, once its sleep is over, gets the lock in the end however
\* often others take it (a waiting Lock is not starved), and finishes its scan.
InitLive == InitWith({"g1"}, {}, {}, {}, {0})

SpecLive ==
    /\ InitLive
    /\ [][NextLive]_vars
    /\ WF_vars(Tick(OTPTTLSeconds))
    /\ WF_vars(SetBody("g1"))
    /\ WF_vars(DeleteBody("g1"))
    /\ SF_vars(SweeperWake)
    /\ WF_vars(SweepBody(Sweeper))

\* several goroutines calling the cache itself on one key
InitShared == InitWith(Clients, {}, {}, {}, {0})

SpecShared == InitShared /\ [][NextShared]_vars

\* one goroutine with a CacheInstance constructed directly (&CacheInstance{}:
\* the data field is unexported, so nothing outside the package can make the
\* map); GetCache has not been called
InitDirect == InitFrom({"g1"}, {"g1"}, {}, {}, {}, {0}, FALSE)

SpecDirect == InitDirect /\ [][NextDirect]_vars

\* one goroutine using the OTP service and, directly, the cache it shares
InitMixed == InitWith({"g1"}, {}, {}, {}, {0})

SpecMixed == InitMixed /\ [][NextMixed]_vars

\* one goroutine calling the cache itself, with the history of its calls
InitCache == InitWith({"g1"}, {"g1"}, {}, {}, {0})

SpecCache == InitCache /\ [][NextCache]_vars

(***************************************************************************)
(* What the claims speak of.                                               *)
(***************************************************************************)
\* goroutine t's latest call was op and has returned
Done(t, op) == t \in Goroutines /\ th[t].op = op /\ th[t].pc = "idle"

\* this step is goroutine t entering a call of op
Enters(t, op) == th[t].pc = "idle" /\ th'[t] # th[t] /\ th'[t].op = op

\* this step is goroutine t leaving the critical section pc of a call of op
Leaves(t, op, pc) == th[t].op = op /\ th[t].pc = pc /\ th'[t].pc # pc

ValidatedTrue == Res(NilVal, TRUE, "nil")

NotFound == Res(NilVal, FALSE, "not found")

Mismatch == Res(NilVal, FALSE, "mismatch")

RejectedFormat == Res(NilVal, FALSE, "ErrInvalidOTP")

DecimalDigits == {DigitChar[i] : i \in 1..10}

BlankKeys == {"", " "}

(***************************************************************************)
(* C1.  Single use: an OTP stored by one GenerateOTP(key) call lets at     *)
(* most one ValidateOTP(key, otp) call return true, in every interleaving. *)
(* Stated on the goroutines' latest calls: while exactly one OTP has ever  *)
(* been stored under key, no two goroutines have both had ValidateOTP for  *)
(* that key return true.                                                   *)
(***************************************************************************)
C1_SingleUse ==
    \A k \in DOMAIN stored :
        stored[k] = 1 =>
            Cardinality({t \in Goroutines :
                            Done(t, "ValidateOTP") /\ th[t].key = k /\ th[t].res.ok}) <= 1

(***************************************************************************)
(* C2.  Round trip: GenerateOTP(key) directly followed, before the entry   *)
(* expires, by ValidateOTP(key, returnedOtp) returns (true, nil); a second *)
(* ValidateOTP(key, sameOtp) directly after returns (false, not found).    *)
(***************************************************************************)
C2_RoundTrip ==
    \A g \in DOMAIN prev :
        (Done(g, "ValidateOTP") /\ prev[g].key = th[g].key) =>
            /\ ( /\ prev[g].op = "GenerateOTP"
                 /\ prev[g].res.ok
                 /\ th[g].arg = prev[g].res.val
                 /\ snap[g].present
                 /\ now < snap[g].Expiry )
               => th[g].res = ValidatedTrue
            /\ ( /\ prev[g].op = "ValidateOTP"
                 /\ prev[g].res = ValidatedTrue
                 /\ th[g].arg = prev[g].arg )
               => th[g].res = NotFound

(***************************************************************************)
(* C3.  Mismatch keeps the OTP: with a live OTP stored under key,          *)
(* ValidateOTP(key, wrong) for a wrong value of the configured length      *)
(* returns (false, mismatch) and leaves the entry as it was, and a         *)
(* ValidateOTP(key, storedOtp) directly after, before expiry, returns      *)
(* (true, nil).                                                            *)
(***************************************************************************)
C3_MismatchKeepsOtp ==
    \A g \in DOMAIN prev :
        (Done(g, "ValidateOTP") /\ snap[g].present /\ now < snap[g].Expiry
            /\ snap[g].Data.t = "string") =>
            /\ (snap[g].Data # th[g].arg /\ Len(th[g].arg.s) = Length)
               => (th[g].res = Mismatch /\ Lookup(data, th[g].key) = snap[g])
            /\ ( /\ prev[g].op = "ValidateOTP"
                 /\ prev[g].key = th[g].key
                 /\ prev[g].res = Mismatch
                 /\ th[g].arg = snap[g].Data )
               => th[g].res = ValidatedTrue

(***************************************************************************)
(* C4.  Get(key) returns not-found when the key is absent or its entry's   *)
(* expiry is at or before the current time (expiry <= now), and            *)
(* (value, true) only when the expiry is strictly after it.                *)
(***************************************************************************)
C4_GetExpiry ==
    [][\A t \in Goroutines :
          Leaves(t, "Get", "get_cs") =>
              th'[t].res =
                  IF th[t].key \notin DOMAIN data \/ data[th[t].key].Expiry <= now
                  THEN Res(NilVal, FALSE, "nil")
                  ELSE Res(data[th[t].key].Data, TRUE, "nil")]_vars

(***************************************************************************)
(* C5.  RemoveExpiredEntries removes every entry whose expiry is at or     *)
(* before the current time at the scan (expiry <= now) and leaves every    *)
(* entry with a later expiry as it was.                                    *)
(***************************************************************************)
C5_SweepRemovesExpired ==
    [][\A t \in Goroutines :
          Leaves(t, "RemoveExpiredEntries", "sweep_cs") =>
              data' = [k \in {j \in DOMAIN data : data[j].Expiry > now} |-> data[k]]]_vars

(***************************************************************************)
(* C6.  Set(key, value, expiry) fails with the empty-key error for every   *)
(* key that is empty or blank, leaving the mapping unchanged, and returns  *)
(* no error for every other key.                                           *)
(***************************************************************************)
C6_SetRejectsBlank ==
    [][\A t \in Goroutines :
          /\ Enters(t, "Set") =>
                IF th'[t].key \in BlankKeys
                THEN /\ th'[t].pc = "idle"
                     /\ th'[t].res.err = "empty key"
                     /\ data' = data
                ELSE th'[t].pc = "set_cs"
          /\ Leaves(t, "Set", "set_cs") => th'[t].res.err = "nil"]_vars

(***************************************************************************)
(* C6, amended.  Set fails with the empty-key error exactly when the key   *)
(* is the empty string, and then leaves the mapping unchanged; every other *)
(* key, a blank one included, is accepted: the entry is stored with the    *)
(* given value and expiry and Set returns no error.                        *)
(***************************************************************************)
C6_SetRejectsEmpty ==
    [][\A t \in Goroutines :
          /\ Enters(t, "Set") =>
                IF th'[t].key = ""
                THEN /\ th'[t].pc = "idle"
                     /\ th'[t].res.err = "empty key"
                     /\ data' = data
                ELSE th'[t].pc = "set_cs"
          /\ Leaves(t, "Set", "set_cs") =>
                /\ th'[t].pc = "idle"
                /\ th'[t].res.err = "nil"
                /\ th[t].key \in DOMAIN data'
                /\ data'[th[t].key] = [Data |-> th[t].arg, Expiry |-> th[t].exp]
                /\ \A k \in DOMAIN data' \ {th[t].key} :
                        k \in DOMAIN data /\ data'[k] = data[k]]_vars

\* a blank key has been stored and Set returned no error
C6_Witness ==
    /\ Done("g1", "Set")
    /\ th["g1"].key = " "
    /\ th["g1"].res.err = "nil"
    /\ " " \in DOMAIN data
    /\ data[" "].Data = th["g1"].arg

(***************************************************************************)
(* C7.  For every configured length L >= 1, a successful GenerateOTP       *)
(* returns exactly L decimal digits, and for L >= 2 their value lies in    *)
(* [10^(L-1), 10^L - 1]: the first digit is not 0.                         *)
(***************************************************************************)
C7_OtpShape ==
    \A g \in Goroutines :
        (Done(g, "GenerateOTP") /\ th[g].res.ok) =>
            LET s == th[g].res.val.s
            IN  /\ Len(s) = Length
                /\ \A i \in 1..Len(s) : s[i] \in DecimalDigits
                /\ Length >= 2 => s[1] # "0"

(***************************************************************************)
(* C8.  Format rejection: ValidateOTP(key, otp) with otp empty or of a     *)
(* length other than the configured one returns (false, ErrInvalidOTP)     *)
(* without any cache operation: no lock is taken, the mapping is as it     *)
(* was, so an OTP pending under key stays in place.                        *)
(***************************************************************************)
C8_FormatRejection ==
    [][\A t \in Goroutines :
          ( /\ Enters(t, "ValidateOTP")
            /\ (th'[t].arg.s = <<>> \/ Len(th'[t].arg.s) # Length) )
          => /\ th'[t].pc = "idle"
             /\ th'[t].res = RejectedFormat
             /\ mu' = mu
             /\ data' = data]_vars

\* an OTP of the wrong length was rejected while an OTP is pending under the key
C8_Witness ==
    /\ Done("g1", "ValidateOTP")
    /\ th["g1"].res = RejectedFormat
    /\ th["g1"].arg.s # <<>>
    /\ th["g1"].key \in DOMAIN data
    /\ now < data[th["g1"].key].Expiry
    /\ prev["g1"].op = "GenerateOTP"

(***************************************************************************)
(* C9.  OTP expiry: GenerateOTP at time t stores the OTP with expiry       *)
(* t + 10 minutes, and a ValidateOTP whose lookup runs once that expiry is *)
(* at or before the current time fails with the not-found error, swept or  *)
(* not.                                                                    *)
(***************************************************************************)
C9_OtpExpiry ==
    [][\A t \in Goroutines :
          /\ (Enters(t, "GenerateOTP") /\ th'[t].pc = "set_lock")
                => th'[t].exp = now + 10 * 60
          /\ Leaves(t, "GenerateOTP", "set_cs")
                => data'[th[t].key].Expiry = th[t].exp
          /\ ( /\ Leaves(t, "ValidateOTP", "get_cs")
               /\ th[t].key \in DOMAIN data
               /\ data[th[t].key].Expiry <= now )
                => th'[t].res = NotFound]_vars

(***************************************************************************)
(* C10.  Idempotence of reads: Get(key) or Exists(key) called again with   *)
(* no write to the mapping in between returns the same result.             *)
(***************************************************************************)
RepeatsRead(g) ==
    /\ th[g].op \in {"Get", "Exists"}
    /\ th[g].pc \in {"get_cs", "exists_cs"}
    /\ th'[g].pc = "idle"
    /\ prev[g].op = th[g].op
    /\ prev[g].key = th[g].key
    /\ reads[g] >= 1

C10_ReadsIdempotent ==
    [][\A g \in DOMAIN prev : RepeatsRead(g) => th'[g].res = prev[g].res]_vars

(***************************************************************************)
(* C10, amended.  A repeated Get(key) or Exists(key) with no write in      *)
(* between returns the same result unless the entry has expired in the     *)
(* meantime: then a read that found the entry is followed by one that does *)
(* not, and never the other way round.                                     *)
(***************************************************************************)
C10_ReadsIdempotentUntilExpiry ==
    [][\A g \in DOMAIN prev :
          RepeatsRead(g) =>
              \/ th'[g].res = prev[g].res
              \/ /\ prev[g].res.ok
                 /\ ~th'[g].res.ok
                 /\ th[g].key \in DOMAIN data
                 /\ data[th[g].key].Expiry < now]_vars

\* Get was repeated with no write in between and found the entry both times
C10_Witness ==
    /\ Done("g1", "Get")
    /\ prev["g1"].op = "Get"
    /\ prev["g1"].key = th["g1"].key
    /\ reads["g1"] = 2
    /\ th["g1"].res.ok
    /\ th["g1"].res = prev["g1"].res

(***************************************************************************)
(* C11.  At most one live OTP per key: a second GenerateOTP(key) replaces  *)
(* the entry of the first by one holding the second OTP with a fresh       *)
(* expiry (the time of the call plus ten minutes); directly after it,      *)
(* before that expiry, ValidateOTP(key, firstOtp) with firstOtp different  *)
(* from the second OTP fails with the mismatch error and leaves the entry  *)
(* in place, and only the second OTP validates.                            *)
(***************************************************************************)
AfterSecondGenerate(g) ==
    /\ Done(g, "ValidateOTP")
    /\ prev[g].op = "GenerateOTP"
    /\ prev[g].res.ok
    /\ prev[g].key = th[g].key
    /\ prev[g].old.present
    /\ snap[g].present
    /\ now < snap[g].Expiry

C11_OneLiveOtp ==
    /\ [](\A g \in DOMAIN prev :
            AfterSecondGenerate(g) =>
                /\ (th[g].arg = prev[g].old.Data /\ th[g].arg # prev[g].res.val)
                   => (th[g].res = Mismatch /\ Lookup(data, th[g].key) = snap[g])
                /\ th[g].arg = prev[g].res.val => th[g].res = ValidatedTrue
                /\ th[g].res = ValidatedTrue => th[g].arg = prev[g].res.val)
    /\ [][\A t \in Goroutines :
            /\ (Enters(t, "GenerateOTP") /\ th'[t].pc = "set_lock")
                  => th'[t].exp = now + OTPTTLSeconds
            /\ (Leaves(t, "GenerateOTP", "set_cs") /\ th[t].key \in DOMAIN data)
                  => /\ th'[t].res = Res(th[t].arg, TRUE, "nil")
                     /\ data'[th[t].key] = [Data |-> th[t].arg, Expiry |-> th[t].exp]]_vars

(***************************************************************************)
(* C12.  Disjoint-key concurrency: goroutines running Set, Get and Delete  *)
(* concurrently, each on its own key, lose no update.  Whenever a          *)
(* goroutine is between two calls, the mapping holds for its key exactly   *)
(* what replaying that goroutine's calls in program order leaves there,    *)
(* whatever the other goroutines are doing; a Get has returned what that   *)
(* replay holds; and the mapping has no key beyond the goroutines' own.    *)
(***************************************************************************)
C12_DisjointKeys ==
    /\ DOMAIN data \subseteq DOMAIN replay
    /\ \A t \in Clients :
          Idle(t) =>
              /\ Lookup(data, KeyOf[t]) = replay[KeyOf[t]]
              /\ th[t].op = "Get" =>
                    th[t].res =
                        IF replay[KeyOf[t]].present /\ ~IsExpired(replay[KeyOf[t]], now)
                        THEN Res(replay[KeyOf[t]].Data, TRUE, "nil")
                        ELSE Res(NilVal, FALSE, "nil")

\* both goroutines are between calls, one has stored an entry after the other
\* began, and both entries are in the mapping
C12_Witness ==
    /\ \A t \in Clients : Idle(t) /\ th[t].op = "Set"
    /\ \A t \in Clients : KeyOf[t] \in DOMAIN data
    /\ data["u1"].Data # data[" "].Data

(***************************************************************************)
(* C13.  Singleton: however the first calls of GetCache interleave, the    *)
(* default instance is built exactly once and exactly one cleanup          *)
(* goroutine is started, and every GetCache call, concurrent or later,     *)
(* returns that one instance, fully initialised (its map made, its cleanup *)
(* goroutine running).                                                     *)
(***************************************************************************)
C13_Singleton ==
    /\ instance <= 1
    /\ started <= 1
    /\ once = "done" => (instance = 1 /\ started = 1)
    /\ \A t \in Clients :
          Done(t, "GetCache") =>
              /\ th[t].res = Res(InstVal(1), TRUE, "nil")
              /\ instance = 1
              /\ started = 1
              /\ data # NilMap
              /\ Sweeper \in Goroutines

\* both goroutines' GetCache calls have returned the one instance, and the
\* cleanup goroutine has swept since
C13_Witness ==
    /\ \A t \in Clients : Done(t, "GetCache") /\ th[t].res.val = InstVal(1)
    /\ started = 1
    /\ wake > SweepPeriodSeconds

(***************************************************************************)
(* C14.  Eventual reclamation: on the singleton cache, with the cleanup    *)
(* goroutine scheduled fairly and the clock advancing, an entry that is    *)
(* not overwritten or deleted is in the end removed from the mapping once  *)
(* its expiry has passed; and the cleanup goroutine never terminates: it   *)
(* is always asleep or scanning, it scans whenever its sleep is over, and  *)
(* it goes back to sleep after each scan.                                  *)
(* The clock of the model stops after MaxTicks advances, so an entry is    *)
(* followed while the clock can still advance, or when it has expired and  *)
(* the cleanup goroutine's sleep is over.                                  *)
(***************************************************************************)
LiveExpiries == UNION {SetExpiries(i * OTPTTLSeconds) : i \in 0..MaxTicks}

SleepOver == th[Sweeper].pc = "sweep_cs" \/ now >= wake

Holds(k, e) == k \in DOMAIN data /\ data[k].Expiry = e

C14_EventualReclamation ==
    /\ \A e \in LiveExpiries :
          (Holds("u1", e) /\ (ticks < MaxTicks \/ (e < now /\ SleepOver)))
              ~> ~Holds("u1", e)
    /\ [](Sweeper \in Goroutines /\ th[Sweeper].pc \in {"sleep", "sweep_cs"})
    /\ (th[Sweeper].pc = "sleep" /\ now >= wake) ~> (th[Sweeper].pc = "sweep_cs")
    /\ (th[Sweeper].pc = "sweep_cs") ~> (th[Sweeper].pc = "sleep")

\* the entry the goroutine's last call stored has expired and is gone from the
\* mapping: the cleanup goroutine, asleep again, has removed it
C14_Witness ==
    /\ Done("g1", "Set")
    /\ th["g1"].res.err = "nil"
    /\ th["g1"].exp < now
    /\ "u1" \notin DOMAIN data
    /\ th[Sweeper].pc = "sleep"
    /\ wake > SweepPeriodSeconds

(***************************************************************************)
(* C15.  OTP record state machine: a pending OTP record (an entry under a  *)
(* key) goes away or changes only when a ValidateOTP that matched that     *)
(* record's own OTP deletes it (consumed), when a sweep removes it after   *)
(* its expiry (expired), or when a later GenerateOTP for the key replaces  *)
(* it; in particular a ValidateOTP running concurrently with a GenerateOTP *)
(* never deletes an OTP it did not match.                                  *)
(***************************************************************************)
Consumes(t, k) ==
    /\ Leaves(t, "ValidateOTP", "del_cs")
    /\ th[t].key = k
    /\ data[k].Data = th[t].arg

Replaces(t, k) == Leaves(t, "GenerateOTP", "set_cs") /\ th[t].key = k

Expires(k) == Leaves(Sweeper, "RemoveExpiredEntries", "sweep_cs") /\ data[k].Expiry <= now

C15_OtpRecordStates ==
    [][\A k \in DOMAIN data :
          (k \notin DOMAIN data' \/ data'[k] # data[k]) =>
              \/ \E t \in Clients : Consumes(t, k)
              \/ \E t \in Clients : Replaces(t, k)
              \/ Expires(k)]_vars

(***************************************************************************)
(* C16.  The two expiry enforcement paths agree.  In every state, for      *)
(* every key, Exists(key) equals the found flag of Get(key); and a run of  *)
(* RemoveExpiredEntries removes exactly the entries that Get and Exists    *)
(* report as absent at that instant, so it changes the result of no Get or *)
(* Exists and removes no entry a read would still return.                  *)
(***************************************************************************)
ReadsAgree(d, clock) ==
    \A k \in Keys : CacheExists(d, k, clock) = CacheGet(d, k, clock).ok

C16_ExpiryPathsAgree ==
    [][/\ ReadsAgree(data, now)
       /\ ReadsAgree(data', now')
       /\ \A t \in Goroutines :
             Leaves(t, "RemoveExpiredEntries", "sweep_cs") =>
                 \A k \in Keys :
                     /\ CacheGet(data', k, now) = CacheGet(data, k, now)
                     /\ CacheExists(data', k, now) = CacheExists(data, k, now)
                     /\ k \in DOMAIN data =>
                           (k \notin DOMAIN data' <=> ~CacheExists(data, k, now))]_vars

\* a sweep has just removed the entry the goroutine had stored before, expired
\* by then, and has left another entry, which reads still return
C16_Witness ==
    /\ Done("g1", "RemoveExpiredEntries")
    /\ prev["g1"].op = "Set"
    /\ prev["g1"].res.err = "nil"
    /\ prev["g1"].key \notin DOMAIN data
    /\ \E k \in DOMAIN data : CacheGet(data, k, now).ok /\ CacheExists(data, k, now)

(***************************************************************************)
(* C17.  Reader/writer lock discipline.  In every state at most one of     *)
(* Set, Delete, Clear, RemoveExpiredEntries is inside its critical section *)
(* and it holds the lock for writing; no Get or Exists is inside its       *)
(* critical section while a writer is, and every Get or Exists inside its  *)
(* critical section holds the lock for reading (several may); and every    *)
(* step that changes the mapping is taken by the goroutine holding the     *)
(* lock for writing, every step that reads it by one holding it for        *)
(* reading.                                                                *)
(***************************************************************************)
WriterSections == {"set_cs", "del_cs", "clear_cs", "sweep_cs"}

ReaderSections == {"get_cs", "exists_cs"}

Writing == {t \in Goroutines : th[t].pc \in WriterSections}

Reading == {t \in Goroutines : th[t].pc \in ReaderSections}

C17_LockDiscipline ==
    /\ [](/\ Cardinality(Writing) <= 1
          /\ Writing # {} => Reading = {}
          /\ \A t \in Writing : mu.w = t
          /\ \A t \in Reading : t \in mu.r /\ mu.w = NoOwner)
    /\ [][/\ data' # data => \E t \in Writing : mu.w = t /\ th'[t].pc \notin WriterSections
          /\ \A t \in Goroutines :
                (th[t].pc \in ReaderSections /\ th'[t].pc # th[t].pc) => t \in mu.r]_vars

\* two goroutines are inside the critical sections of Get and Exists together
C17_Witness ==
    /\ th["g1"].pc = "get_cs"
    /\ th["g2"].pc = "exists_cs"
    /\ mu.r = {"g1", "g2"}

(***************************************************************************)
(* C18.  Reads do not mutate: Get and Exists leave the mapping as it is in *)
(* every case, also when they find an entry that is present but expired    *)
(* (it stays in the mapping); Delete of an absent key leaves the mapping   *)
(* as it is and reports no error.                                          *)
(***************************************************************************)
C18_ReadsDoNotMutate ==
    [][\A t \in Goroutines :
          /\ (Enters(t, "Get") \/ Enters(t, "Exists")) => data' = data
          /\ (Leaves(t, "Get", "get_cs") \/ Leaves(t, "Exists", "exists_cs"))
                => data' = data
          /\ (Leaves(t, "Delete", "del_cs") /\ th[t].key \notin DOMAIN data)
                => /\ data' = data
                   /\ th'[t].pc = "idle"
                   /\ th'[t].res.err = "nil"]_vars

\* Get has reported an expired entry as not found, and the entry is still there
C18_Witness ==
    /\ Done("g1", "Get")
    /\ ~th["g1"].res.ok
    /\ th["g1"].key \in DOMAIN data
    /\ IsExpired(data[th["g1"].key], now)

(***************************************************************************)
(* C19.  Independent instantiation: a CacheInstance constructed directly   *)
(* supports the cache contract from its first operation.  Set with a       *)
(* non-empty key returns no error and stores the entry; a Get of that key  *)
(* directly after, before the entry's expiry, returns the value; and no    *)
(* operation on it creates or changes the singleton.                       *)
(***************************************************************************)
C19_DirectInstance ==
    [][/\ singleton' = singleton
       /\ \A t \in DOMAIN prev :
             /\ Leaves(t, "Set", "set_cs") =>
                   /\ th'[t].pc = "idle"
                   /\ th'[t].res.err = "nil"
                   /\ Lookup(data', th[t].key) =
                         [Data |-> th[t].arg, Expiry |-> th[t].exp, present |-> TRUE]
             /\ ( /\ Leaves(t, "Get", "get_cs")
                  /\ prev[t].op = "Set"
                  /\ prev[t].res.err = "nil"
                  /\ prev[t].key = th[t].key
                  /\ Lookup(data, th[t].key).Expiry > now )
                => th'[t].res = Res(prev[t].arg, TRUE, "nil")]_vars

(***************************************************************************)
(* C20.  ValidateOTP always completes with a (bool, error) result: for     *)
(* every live value stored under key in the shared cache (another OTP      *)
(* string, nil, or a value that is not a string, put there through the     *)
(* cache's Set), ValidateOTP(key, otp) with a well-formed otp that differs *)
(* from the cached value returns (false, mismatch) and leaves the entry in *)
(* place.                                                                  *)
(***************************************************************************)
C20_ValidateCompletes ==
    [][\A t \in Goroutines :
          ( /\ Leaves(t, "ValidateOTP", "get_cs")
            /\ th[t].key \in DOMAIN data
            /\ data[th[t].key].Expiry > now
            /\ data[th[t].key].Data # th[t].arg )
          => /\ th'[t].pc = "idle"
             /\ th'[t].res = Mismatch
             /\ data' = data]_vars

====
